---- MODULE Spec2Model ----
(***************************************************************************)
(* A model of the eigenlayer data directory (internal/data: DataDir and    *)
(* Instance) and of the Prometheus target synchronisation                   *)
(* (pkg/monitoring/services/prometheus: PrometheusService).                 *)
(*                                                                         *)
(* The unit of concurrency is the operating-system process: every process  *)
(* of Procs runs one operation at a time, and an operation that makes       *)
(* several filesystem or network calls is a sequence of steps, one per      *)
(* call, which the steps of the other processes may interleave.             *)
(*                                                                         *)
(* Strings are sequences of code units.  The unit "xFF" stands for a byte   *)
(* that is no valid UTF-8, "uFFFD" for the Unicode replacement character.   *)
(***************************************************************************)
EXTENDS Naturals, Sequences, FiniteSets, TLC

VARIABLES
  nodes,    \* nodes/<id>: the directory, its .lock and its state.json
  pc,       \* each process's position in the operation it runs
  call,     \* each process's running operation and its argument
  ret,      \* the error value of each process's last finished operation
  fd,       \* the state.json inode a process in Instance.Init holds open
  handle,   \* each process's Instance handle (path and flock state)
  backupDir, \* whether backup/ exists
  archives, \* backup/<id>.tar: "absent", "empty" (initialised) or "filled"
  mon,      \* monitoring/: whether it exists and whether its Init completed
  file,     \* monitoring/prometheus/prometheus.yml: <<>> or <<document>>
  loaded,   \* the document the running Prometheus loaded last: <<>> or <<document>>
  local,    \* the newConfig a process is about to write
  nodesDir, \* whether nodes/ exists
  list,     \* ListInstances of a process: the entries left to read, the instances read
  pluginDir, \* whether plugin/ exists
  plugins,  \* plugin/<id>.tar: "absent", "empty", "partial" or "full"
  ctx,      \* the input stream a process passed to SavePluginImageContext
  copyErr   \* the error of io.Copy in a process's SavePluginImageContext

vars == <<nodes, pc, call, ret, fd, handle, backupDir, archives, mon, file, loaded, local,
          nodesDir, list, pluginDir, plugins, ctx, copyErr>>

instVars == <<nodes, fd, handle>>

auxVars == <<backupDir, archives, mon>>

promVars == <<file, loaded, local>>

listVars == <<nodesDir, list>>

pluginVars == <<pluginDir, plugins, ctx, copyErr>>

Procs == {"p1", "p2"}

----------------------------------------------------------------------------
(* Instances the callers pass to InitInstance.                             *)

Inst(name, url, tag) ==
  [Name |-> name, URL |-> url, Version |-> <<"1">>, Profile |-> <<"p">>, Tag |-> tag]

ValidInstances ==
  { Inst(<<"a">>, <<"u">>, <<"t">>),
    Inst(<<"a">>, <<"u", "xFF">>, <<"t">>),
    Inst(<<"b">>, <<"u">>, <<"t">>) }

InvalidInstances ==
  { Inst(<<>>, <<"u">>, <<"t">>),
    Inst(<<"a">>, <<>>, <<"t">>) }

Instances == ValidInstances \cup InvalidInstances

\* InstanceId(name, tag): the directory name of an instance.
InstanceId(name, tag) == <<name, tag>>

Ids == { InstanceId(i.Name, i.Tag) : i \in Instances }

\* The instance the processes of the locking specification work on.
LockInstances == { Inst(<<"a">>, <<"u">>, <<"t">>) }

LockIds == { InstanceId(i.Name, i.Tag) : i \in LockInstances }

\* The instances the processes of the listing specification work on.
ListedInstances == { Inst(<<"a">>, <<"u">>, <<"t">>), Inst(<<"b">>, <<"u">>, <<"t">>) }

ListedIds == { InstanceId(i.Name, i.Tag) : i \in ListedInstances }

----------------------------------------------------------------------------
(* Instance.validate and the JSON encoding of state.json.                  *)

\* A mutant of validate: the name alone is looked at.
validateNameOnly(i) ==
  IF i.Name = <<>> THEN "InvalidInstance: name is empty" ELSE "nil"

validate(i) ==
  IF i.Name = <<>> THEN "InvalidInstance: name is empty"
  ELSE IF i.URL = <<>> THEN "InvalidInstance: url is empty"
  ELSE IF i.Version = <<>> THEN "InvalidInstance: version is empty"
  ELSE IF i.Profile = <<>> THEN "InvalidInstance: profile is empty"
  ELSE IF i.Tag = <<>> THEN "InvalidInstance: tag is empty"
  ELSE "nil"

\* encoding/json writes a string coerced to valid UTF-8: every invalid byte
\* becomes the replacement character U+FFFD.
JSONString(s) == [k \in 1..Len(s) |-> IF s[k] = "xFF" THEN "uFFFD" ELSE s[k]]

\* A mutant of Marshal: the Tag field is not written (json:"-").
MarshalWithoutTag(i) ==
  [name |-> JSONString(i.Name), url |-> JSONString(i.URL),
   version |-> JSONString(i.Version), profile |-> JSONString(i.Profile),
   tag |-> <<>>]

\* json.Marshal(i): the exported fields under their json tags; path and lock
\* are unexported and not written.
Marshal(i) ==
  [name |-> JSONString(i.Name), url |-> JSONString(i.URL),
   version |-> JSONString(i.Version), profile |-> JSONString(i.Profile),
   tag |-> JSONString(i.Tag)]

\* json.Unmarshal(stateData, &i) of one JSON object.
Unmarshal(j) ==
  [Name |-> j.name, URL |-> j.url, Version |-> j.version,
   Profile |-> j.profile, Tag |-> j.tag]

----------------------------------------------------------------------------
(* The filesystem below nodes/.  A file is known by its inode: a file      *)
(* removed and created again at the same path is another file.  The        *)
(* content of state.json is <<>> (no bytes) or <<j>>, one JSON object.      *)

NoDir == [dir |-> FALSE, lock |-> 0, state |-> 0, content |-> <<>>]

Inodes == 1..(Cardinality(Ids) + Cardinality(Procs) + 1)

FreshInode(used) == CHOOSE n \in Inodes : n \notin used /\ \A m \in Inodes : m < n => m \in used

LockInodesInUse == { nodes[i].lock : i \in Ids } \cup { handle[q].ino : q \in Procs }

StateInodesInUse == { nodes[i].state : i \in Ids } \cup { fd[q] : q \in Procs }

\* A mutant of StatExists: the path is joined without nodes/, and is never there.
StatExistsWrongPath(fs, id) == FALSE

\* d.fs.Stat(instancePath) succeeds.
StatExists(fs, id) == fs[id].dir

\* DataDir.HasInstance
HasInstance(id) == StatExists(nodes, id)

\* DataDir.InstancePath: the path, or ErrInstanceNotFound.
InstancePath(id) ==
  IF StatExists(nodes, id) THEN [err |-> "nil", path |-> <<id>>]
  ELSE [err |-> "InstanceNotFound", path |-> <<>>]

\* NewInstance(path): read state.json back.
NewInstance(fs, id) ==
  IF ~(fs[id].dir /\ fs[id].state # 0)
  THEN [err |-> "InvalidInstanceDir", inst |-> <<>>]
  ELSE IF fs[id].content = <<>>
  THEN [err |-> "InvalidInstance: invalid state.json file", inst |-> <<>>]
  ELSE LET i == Unmarshal(fs[id].content[1]) IN
       IF validate(i) # "nil" THEN [err |-> validate(i), inst |-> <<>>]
       ELSE [err |-> "nil", inst |-> <<i>>]

----------------------------------------------------------------------------
NoCall == [op |-> "none", arg |-> <<>>]

BackupIds == {"k1", "k2"}

NoMon == [dir |-> FALSE, inited |-> FALSE]

NoHandle == [id |-> <<>>, lock |-> FALSE, locked |-> FALSE, ino |-> 0]

\* The plugin ids the callers pass to SavePluginImageContext.
PluginIds == {"g1", "g2"}

\* ListInstances before it ran: no entries, no instances.
NoList == [entries |-> <<>>, instances |-> <<>>]

Init ==
  /\ nodes = [i \in Ids |-> NoDir]
  /\ pc = [p \in Procs |-> "idle"]
  /\ call = [p \in Procs |-> NoCall]
  /\ ret = [p \in Procs |-> "none"]
  /\ fd = [p \in Procs |-> 0]
  /\ handle = [p \in Procs |-> NoHandle]
  /\ backupDir = FALSE
  /\ archives = [b \in BackupIds |-> "absent"]
  /\ mon = NoMon
  /\ file = <<>>
  /\ loaded = <<>>
  /\ local = [p \in Procs |-> <<>>]
  /\ nodesDir = FALSE
  /\ list = [p \in Procs |-> NoList]
  /\ pluginDir = FALSE
  /\ plugins = [g \in PluginIds |-> "absent"]
  /\ ctx = [p \in Procs |-> "none"]
  /\ copyErr = [p \in Procs |-> "none"]

\* The operation of p returns err.
Finish(p, err) ==
  /\ pc' = [pc EXCEPT ![p] = "done"]
  /\ ret' = [ret EXCEPT ![p] = err]

Goto(p, label) ==
  /\ pc' = [pc EXCEPT ![p] = label]
  /\ UNCHANGED ret

Begin(p, op, arg) ==
  /\ pc[p] = "idle"
  /\ call' = [call EXCEPT ![p] = [op |-> op, arg |-> <<arg>>]]

\* The caller takes the result (the error, and the list of ListInstances);
\* the process is free for its next operation.
TakeResult(p) ==
  /\ pc[p] = "done"
  /\ pc' = [pc EXCEPT ![p] = "idle"]
  /\ call' = [call EXCEPT ![p] = NoCall]
  /\ ret' = [ret EXCEPT ![p] = "none"]
  /\ list' = [list EXCEPT ![p] = NoList]
  /\ UNCHANGED <<instVars, nodesDir, auxVars, promVars, pluginVars>>

----------------------------------------------------------------------------
(* DataDir.InitInstance and Instance.Init                                  *)

\* InitInstance: Stat the instance path; Init begins with validate.
InitInstance(p, inst) ==
  /\ Begin(p, "InitInstance", inst)
  /\ LET id == InstanceId(inst.Name, inst.Tag) IN
       IF StatExists(nodes, id) THEN Finish(p, "InstanceAlreadyExists")
       ELSE IF validate(inst) # "nil" THEN Finish(p, validate(inst))
       ELSE Goto(p, "init_lock")
  /\ UNCHANGED <<nodes, fd, handle>>
  /\ UNCHANGED <<listVars, auxVars, promVars, pluginVars>>

\* Create(<path>/.lock).  Creating a file below nodes/<id> through the
\* filesystem makes the directories nodes/ and nodes/<id> exist; a file
\* already there is truncated and stays the same file.
InitCreateLock(p) ==
  /\ pc[p] = "init_lock"
  /\ LET inst == call[p].arg[1]
         id == InstanceId(inst.Name, inst.Tag) IN
       \/ /\ nodes' = [nodes EXCEPT ![id].dir = TRUE,
                                    ![id].lock = IF @ # 0 THEN @ ELSE FreshInode(LockInodesInUse)]
          /\ nodesDir' = TRUE
          /\ Goto(p, "init_state")
       \/ /\ Finish(p, "IOError")
          /\ UNCHANGED <<nodes, nodesDir>>
  /\ UNCHANGED <<call, fd, handle>>
  /\ UNCHANGED <<list, auxVars, promVars, pluginVars>>

\* Create(<path>/state.json): an empty state.json, open in this process.
InitCreateState(p) ==
  /\ pc[p] = "init_state"
  /\ LET inst == call[p].arg[1]
         id == InstanceId(inst.Name, inst.Tag)
         ino == IF nodes[id].state # 0 THEN nodes[id].state ELSE FreshInode(StateInodesInUse) IN
       \/ /\ nodes' = [nodes EXCEPT ![id].dir = TRUE, ![id].state = ino, ![id].content = <<>>]
          /\ fd' = [fd EXCEPT ![p] = ino]
          /\ nodesDir' = TRUE
          /\ Goto(p, "init_write")
       \/ /\ Finish(p, "IOError")
          /\ UNCHANGED <<nodes, fd, nodesDir>>
  /\ UNCHANGED <<call, handle>>
  /\ UNCHANGED <<list, auxVars, promVars, pluginVars>>

\* stateFile.Write(json.Marshal(i)), then the deferred Close, whose error is
\* returned when the write had none.  The write goes to the open file,
\* whether or not it is still the file at the path.
InitWriteState(p) ==
  /\ pc[p] = "init_write"
  /\ LET inst == call[p].arg[1]
         id == InstanceId(inst.Name, inst.Tag)
         written == IF nodes[id].state = fd[p]
                    THEN [nodes EXCEPT ![id].content = <<Marshal(inst)>>]
                    ELSE nodes IN
       \/ /\ nodes' = written
          /\ Finish(p, "nil")
       \/ /\ nodes' = written
          /\ Finish(p, "IOError")
       \/ /\ UNCHANGED nodes
          /\ Finish(p, "IOError")
  /\ fd' = [fd EXCEPT ![p] = 0]
  /\ UNCHANGED <<call, handle>>
  /\ UNCHANGED <<listVars, auxVars, promVars, pluginVars>>

\* A mutant of RemoveAll: the path removed is nodes/ itself.
RemoveAllNodes(fs, id) == [i \in DOMAIN fs |-> NoDir]

\* d.fs.RemoveAll(instancePath)
RemoveAll(fs, id) == [fs EXCEPT ![id] = NoDir]

\* DataDir.RemoveInstance
RemoveInstance(p, id) ==
  /\ Begin(p, "RemoveInstance", id)
  /\ IF ~StatExists(nodes, id)
     THEN /\ Finish(p, "InstanceNotFound")
          /\ UNCHANGED nodes
     ELSE /\ nodes' = RemoveAll(nodes, id)
          /\ Finish(p, "nil")
  /\ UNCHANGED <<fd, handle>>
  /\ UNCHANGED <<listVars, auxVars, promVars, pluginVars>>

----------------------------------------------------------------------------
(* DataDir.Instance, Instance.Lock and Instance.Unlock.  A handle's lock   *)
(* is a flock(2) lock on the file the handle opened at <path>/.lock: it     *)
(* excludes the other open descriptions of that same file.                  *)

\* DataDir.Instance(id): a handle on nodes/<id>, read from its state.json.
\* A process keeps one handle, and takes another only while it holds no lock.
Instance(p, id) ==
  /\ Begin(p, "Instance", id)
  /\ ~handle[p].locked
  /\ LET r == NewInstance(nodes, id) IN
       IF r.err = "nil"
       THEN /\ handle' = [handle EXCEPT ![p] = [id |-> <<id>>, lock |-> FALSE, locked |-> FALSE, ino |-> 0]]
            /\ Finish(p, "nil")
       ELSE /\ Finish(p, r.err)
            /\ UNCHANGED handle
  /\ UNCHANGED <<nodes, fd>>
  /\ UNCHANGED <<listVars, auxVars, promVars, pluginVars>>

\* No other handle holds the flock on the file with inode ino.
FlockFree(p, ino) == \A q \in Procs \ {p} : ~(handle[q].locked /\ handle[q].ino = ino)

\* Instance.Lock: the Flock is made on first use; Flock.Lock returns at once
\* when this handle holds the lock, else opens the file (creating it when the
\* directory has none) and waits in flock(LOCK_EX).
Lock(p) ==
  /\ Begin(p, "Lock", handle[p].id)
  /\ handle[p].id # <<>>
  /\ LET id == handle[p].id[1] IN
       IF handle[p].locked
       THEN /\ Finish(p, "nil")
            /\ UNCHANGED <<nodes, handle>>
       ELSE IF ~nodes[id].dir
       THEN /\ Finish(p, "IOError")
            /\ handle' = [handle EXCEPT ![p].lock = TRUE]
            /\ UNCHANGED nodes
       ELSE LET ino == IF nodes[id].lock # 0 THEN nodes[id].lock
                       ELSE FreshInode(LockInodesInUse) IN
            /\ nodes' = [nodes EXCEPT ![id].lock = ino]
            /\ handle' = [handle EXCEPT ![p].lock = TRUE, ![p].ino = ino]
            /\ Goto(p, "flock")
  /\ UNCHANGED fd
  /\ UNCHANGED <<listVars, auxVars, promVars, pluginVars>>

\* flock(LOCK_EX) returns: the lock on the opened file is this handle's.
LockAcquire(p) ==
  /\ pc[p] = "flock"
  /\ FlockFree(p, handle[p].ino)
  /\ handle' = [handle EXCEPT ![p].locked = TRUE]
  /\ Finish(p, "nil")
  /\ UNCHANGED <<nodes, call, fd>>
  /\ UNCHANGED <<listVars, auxVars, promVars, pluginVars>>

\* A mutant of Unlock: the handle's lock is released without the check.
UnlockUnchecked(p) ==
  /\ Begin(p, "Unlock", handle[p].id)
  /\ handle' = [handle EXCEPT ![p].locked = FALSE, ![p].ino = 0]
  /\ Finish(p, "nil")
  /\ UNCHANGED <<nodes, fd>>
  /\ UNCHANGED <<listVars, auxVars, promVars, pluginVars>>

\* Instance.Unlock
Unlock(p) ==
  /\ Begin(p, "Unlock", handle[p].id)
  /\ IF ~handle[p].lock \/ ~handle[p].locked
     THEN /\ Finish(p, "instance is not locked")
          /\ UNCHANGED handle
     ELSE /\ handle' = [handle EXCEPT ![p].locked = FALSE, ![p].ino = 0]
          /\ Finish(p, "nil")
  /\ UNCHANGED <<nodes, fd>>
  /\ UNCHANGED <<listVars, auxVars, promVars, pluginVars>>

----------------------------------------------------------------------------
(* DataDir.InitBackup                                                      *)

\* A mutant of hasBackup: the path tested never exists.
hasBackupNever(ar, b) == FALSE

\* afero.Exists(d.fs, backupPath)
hasBackup(ar, b) == ar[b] # "absent"

\* InitBackup begins with initBackupDir: MkdirAll only when DirExists says no.
InitBackup(p, b) ==
  /\ Begin(p, "InitBackup", b)
  /\ IF backupDir
     THEN /\ Goto(p, "backup_check")
          /\ UNCHANGED backupDir
     ELSE \/ /\ backupDir' = TRUE
             /\ Goto(p, "backup_check")
          \/ /\ Finish(p, "IOError")
             /\ UNCHANGED backupDir
  /\ UNCHANGED <<archives, mon>>
  /\ UNCHANGED <<instVars, listVars, promVars, pluginVars>>

\* initBackup: an archive that exists is left alone.
initBackup(p) ==
  /\ pc[p] = "backup_check"
  /\ IF hasBackup(archives, call[p].arg[1])
     THEN Finish(p, "BackupAlreadyExists")
     ELSE Goto(p, "backup_tar")
  /\ UNCHANGED <<call, backupDir, archives, mon>>
  /\ UNCHANGED <<instVars, listVars, promVars, pluginVars>>

\* utils.TarInit(d.fs, backupPath): an initialised, empty archive.
TarInit(p) ==
  /\ pc[p] = "backup_tar"
  /\ \/ /\ archives' = [archives EXCEPT ![call[p].arg[1]] = "empty"]
        /\ Finish(p, "nil")
     \/ /\ Finish(p, "IOError")
        /\ UNCHANGED archives
  /\ UNCHANGED <<call, backupDir, mon>>
  /\ UNCHANGED <<instVars, listVars, promVars, pluginVars>>

\* The archival writer appends the instance's files to an initialised archive.
ArchiveAppend(b) ==
  /\ archives[b] = "empty"
  /\ archives' = [archives EXCEPT ![b] = "filled"]
  /\ UNCHANGED <<pc, call, ret, backupDir, mon>>
  /\ UNCHANGED <<instVars, listVars, promVars, pluginVars>>

----------------------------------------------------------------------------
(* DataDir.MonitoringStack and DataDir.RemoveMonitoringStack               *)

\* A mutant of MonitoringDirNotExist: the first branch is always taken.
MonitoringDirNotExistAlways(m) == TRUE

\* os.IsNotExist(err) of d.fs.Stat(monitoringStackPath)
MonitoringDirNotExist(m) == ~m.dir

\* MonitoringStack: with the directory there, newMonitoringStack and return.
MonitoringStack(p) ==
  /\ Begin(p, "MonitoringStack", "monitoring")
  /\ IF MonitoringDirNotExist(mon)
     THEN Goto(p, "mon_mkdir")
     ELSE Finish(p, "nil")
  /\ UNCHANGED <<backupDir, archives, mon>>
  /\ UNCHANGED <<instVars, listVars, promVars, pluginVars>>

\* d.fs.MkdirAll(monitoringStackPath, 0o755)
MonitoringMkdirAll(p) ==
  /\ pc[p] = "mon_mkdir"
  /\ \/ /\ mon' = [mon EXCEPT !.dir = TRUE]
        /\ Goto(p, "mon_init")
     \/ /\ Finish(p, "IOError")
        /\ UNCHANGED mon
  /\ UNCHANGED <<call, backupDir, archives>>
  /\ UNCHANGED <<instVars, listVars, promVars, pluginVars>>

\* monitoringStack.Init(): deploys the default service configuration.
MonitoringInit(p) ==
  /\ pc[p] = "mon_init"
  /\ \/ /\ mon' = IF mon.dir THEN [mon EXCEPT !.inited = TRUE] ELSE mon
        /\ Finish(p, IF mon.dir THEN "nil" ELSE "IOError")
     \/ /\ Finish(p, "IOError")
        /\ UNCHANGED mon
  /\ UNCHANGED <<call, backupDir, archives>>
  /\ UNCHANGED <<instVars, listVars, promVars, pluginVars>>

\* DataDir.RemoveMonitoringStack
RemoveMonitoringStack(p) ==
  /\ Begin(p, "RemoveMonitoringStack", "monitoring")
  /\ IF MonitoringDirNotExist(mon)
     THEN /\ Finish(p, "MonitoringStackNotFound")
          /\ UNCHANGED mon
     ELSE /\ mon' = NoMon
          /\ Finish(p, "nil")
  /\ UNCHANGED <<backupDir, archives>>
  /\ UNCHANGED <<instVars, listVars, promVars, pluginVars>>

----------------------------------------------------------------------------
(* PrometheusService: the scrape configuration prometheus.yml.             *)

\* The most jobs a configuration holds in the model.
MaxJobs == 3

HTTPScheme == <<"http://">>

\* A mutant of TrimPrefix: the scheme is left on the endpoint.
TrimPrefixNone(s, prefix) == s

\* strings.TrimPrefix(s, prefix)
TrimPrefix(s, prefix) ==
  IF Len(s) >= Len(prefix) /\ SubSeq(s, 1, Len(prefix)) = prefix
  THEN SubSeq(s, Len(prefix) + 1, Len(s))
  ELSE s

\* monitoring.NodeExporterContainerName
NodeExporterContainerName == "egn_node_exporter"

\* The endpoints and instance ids the callers of AddTarget pass.
AddTargetArgs ==
  { [endpoint |-> <<"http://", "a:1">>, instanceID |-> "x"],
    [endpoint |-> <<"a:1">>, instanceID |-> "y"],
    [endpoint |-> <<"http://", "b:2">>, instanceID |-> "x"] }

RemoveTargetArgs ==
  { <<"http://", "a:1">>, <<"http://", "b:2">>, <<NodeExporterContainerName, ":", "9100">> }

\* The options of Setup: NODE_EXPORTER_PORT missing, empty or set.
SetupOptions ==
  { [has |-> FALSE, NODE_EXPORTER_PORT |-> <<>>],
    [has |-> TRUE, NODE_EXPORTER_PORT |-> <<>>],
    [has |-> TRUE, NODE_EXPORTER_PORT |-> <<"9100">>] }

\* config/prometheus.yml of the embedded filesystem, unmarshalled.
EmbeddedConfig == [Global |-> [ScrapeInterval |-> "template"], ScrapeConfigs |-> <<>>]

\* A ScrapeConfig with one StaticConfig; labels is a sequence of
\* <<key, value>> pairs, <<>> for the nil map.
ScrapeConfig(endpoint, labels) ==
  [JobName |-> endpoint,
   StaticConfigs |-> << [Targets |-> <<endpoint>>, Labels |-> labels] >>]

\* yaml.Marshal(&config): the fields under their yaml tags; empty labels are
\* omitted (labels,omitempty).
yamlMarshal(config) ==
  [global |-> [scrape_interval |-> config.Global.ScrapeInterval],
   scrape_configs |->
     [k \in 1..Len(config.ScrapeConfigs) |->
        [job_name |-> config.ScrapeConfigs[k].JobName,
         static_configs |->
           [n \in 1..Len(config.ScrapeConfigs[k].StaticConfigs) |->
              [targets |-> config.ScrapeConfigs[k].StaticConfigs[n].Targets,
               labels |-> config.ScrapeConfigs[k].StaticConfigs[n].Labels]]]]]

\* yaml.Unmarshal(rawConfig, &config)
yamlUnmarshal(doc) ==
  [Global |-> [ScrapeInterval |-> doc.global.scrape_interval],
   ScrapeConfigs |->
     [k \in 1..Len(doc.scrape_configs) |->
        [JobName |-> doc.scrape_configs[k].job_name,
         StaticConfigs |->
           [n \in 1..Len(doc.scrape_configs[k].static_configs) |->
              [Targets |-> doc.scrape_configs[k].static_configs[n].targets,
               Labels |-> doc.scrape_configs[k].static_configs[n].labels]]]]]

\* A mutant of JobExists: the loop looks at the first job only.
JobExistsFirstOnly(jobs, endpoint) == Len(jobs) > 0 /\ jobs[1].JobName = endpoint

\* The loop of AddTarget: some job has JobName = endpoint.
JobExists(jobs, endpoint) == \E k \in 1..Len(jobs) : jobs[k].JobName = endpoint

\* A mutant of RemoveJob: the last job takes the place of the one removed.
RemoveJobSwapLast(jobs, endpoint) ==
  IF \E k \in 1..Len(jobs) : jobs[k].JobName = endpoint
  THEN LET i == CHOOSE k \in 1..Len(jobs) : jobs[k].JobName = endpoint
       IN SubSeq([jobs EXCEPT ![i] = jobs[Len(jobs)]], 1, Len(jobs) - 1)
  ELSE jobs

\* A mutant of RemoveJob: with no job named endpoint, the first job goes.
RemoveJobOrFirst(jobs, endpoint) ==
  IF \E k \in 1..Len(jobs) : jobs[k].JobName = endpoint
  THEN SelectSeq(jobs, LAMBDA j : j.JobName # endpoint)
  ELSE SubSeq(jobs, 2, Len(jobs))

\* The loop of RemoveTarget: the jobs without the first one named endpoint.
RemoveJob(jobs, endpoint) ==
  IF \E k \in 1..Len(jobs) : jobs[k].JobName = endpoint
  THEN LET i == CHOOSE k \in 1..Len(jobs) :
                  /\ jobs[k].JobName = endpoint
                  /\ \A m \in 1..(k - 1) : jobs[m].JobName # endpoint
       IN SubSeq(jobs, 1, i - 1) \o SubSeq(jobs, i + 1, Len(jobs))
  ELSE jobs

\* The operation of p returns err and drops its newConfig.
FinishProm(p, err) ==
  /\ Finish(p, err)
  /\ local' = [local EXCEPT ![p] = <<>>]

\* AddTarget up to the decision: read and unmarshal the file, look the job
\* up, and marshal the configuration with the new job appended.
AddTarget(p, a) ==
  /\ Begin(p, "AddTarget", a)
  /\ IF file = <<>>
     THEN FinishProm(p, "IOError")
     ELSE LET config == yamlUnmarshal(file[1])
              endpoint == TrimPrefix(a.endpoint, HTTPScheme)
              job == ScrapeConfig(endpoint, << <<"instanceID", a.instanceID>> >>) IN
          IF JobExists(config.ScrapeConfigs, endpoint)
          THEN FinishProm(p, "nil")
          ELSE /\ Len(config.ScrapeConfigs) < MaxJobs
               /\ local' = [local EXCEPT ![p] =
                    <<yamlMarshal([config EXCEPT !.ScrapeConfigs = Append(@, job)])>>]
               /\ Goto(p, "write")
  /\ UNCHANGED <<file, loaded>>
  /\ UNCHANGED <<instVars, listVars, auxVars, pluginVars>>

\* RemoveTarget up to the decision.
RemoveTarget(p, e) ==
  /\ Begin(p, "RemoveTarget", e)
  /\ IF file = <<>>
     THEN FinishProm(p, "IOError")
     ELSE LET config == yamlUnmarshal(file[1])
              endpoint == TrimPrefix(e, HTTPScheme)
              jobs == RemoveJob(config.ScrapeConfigs, endpoint) IN
          IF Len(jobs) = Len(config.ScrapeConfigs)
          THEN FinishProm(p, "NonexistingEndpoint")
          ELSE /\ local' = [local EXCEPT ![p] =
                    <<yamlMarshal([config EXCEPT !.ScrapeConfigs = jobs])>>]
               /\ Goto(p, "write")
  /\ UNCHANGED <<file, loaded>>
  /\ UNCHANGED <<instVars, listVars, auxVars, pluginVars>>

\* p.stack.WriteFile(path, newConfig) of AddTarget and RemoveTarget.
WriteFile(p) ==
  /\ pc[p] = "write"
  /\ \/ /\ file' = local[p]
        /\ Goto(p, "reload")
        /\ UNCHANGED local
     \/ /\ FinishProm(p, "IOError")
        /\ UNCHANGED file
  /\ UNCHANGED <<call, loaded>>
  /\ UNCHANGED <<instVars, listVars, auxVars, pluginVars>>

\* A mutant of reloadConfig: a failed reload puts the loaded configuration
\* back into the file.
reloadConfigRollback(p) ==
  /\ pc[p] = "reload"
  /\ \/ /\ loaded' = file
        /\ FinishProm(p, "nil")
        /\ UNCHANGED file
     \/ /\ FinishProm(p, "ReloadFailed")
        /\ file' = loaded
        /\ UNCHANGED loaded
  /\ UNCHANGED call
  /\ UNCHANGED <<instVars, listVars, auxVars, pluginVars>>

\* reloadConfig: POST /-/reload.  On 200 the running Prometheus has loaded
\* the file as it is now; the request can fail, or be answered otherwise.
reloadConfig(p) ==
  /\ pc[p] = "reload"
  /\ \/ /\ loaded' = file
        /\ FinishProm(p, "nil")
     \/ /\ FinishProm(p, "IOError")
        /\ UNCHANGED loaded
     \/ /\ FinishProm(p, "ReloadFailed")
        /\ UNCHANGED loaded
  /\ UNCHANGED <<call, file>>
  /\ UNCHANGED <<instVars, listVars, auxVars, pluginVars>>

\* A mutant of Setup: the node exporter job is appended to the jobs of the
\* file that is there.
SetupKeepingJobs(p, options) ==
  /\ Begin(p, "Setup", options)
  /\ IF ~options.has
     THEN FinishProm(p, "InvalidOptions: NODE_EXPORTER_PORT missing in options")
     ELSE IF options.NODE_EXPORTER_PORT = <<>>
     THEN FinishProm(p, "InvalidOptions: NODE_EXPORTER_PORT can't be empty")
     ELSE LET endpoint == <<NodeExporterContainerName, ":">> \o options.NODE_EXPORTER_PORT
              old == IF file = <<>> THEN <<>> ELSE yamlUnmarshal(file[1]).ScrapeConfigs
              config == [EmbeddedConfig EXCEPT !.ScrapeConfigs = Append(old, ScrapeConfig(endpoint, <<>>))] IN
          /\ local' = [local EXCEPT ![p] = <<yamlMarshal(config)>>]
          /\ Goto(p, "setup_write")
  /\ UNCHANGED <<file, loaded>>
  /\ UNCHANGED <<instVars, listVars, auxVars, pluginVars>>

\* Setup up to the write: the options are checked and the template gets the
\* node exporter job as its only job.
Setup(p, options) ==
  /\ Begin(p, "Setup", options)
  /\ IF ~options.has
     THEN FinishProm(p, "InvalidOptions: NODE_EXPORTER_PORT missing in options")
     ELSE IF options.NODE_EXPORTER_PORT = <<>>
     THEN FinishProm(p, "InvalidOptions: NODE_EXPORTER_PORT can't be empty")
     ELSE LET endpoint == <<NodeExporterContainerName, ":">> \o options.NODE_EXPORTER_PORT
              config == [EmbeddedConfig EXCEPT !.ScrapeConfigs = <<ScrapeConfig(endpoint, <<>>)>>] IN
          /\ local' = [local EXCEPT ![p] = <<yamlMarshal(config)>>]
          /\ Goto(p, "setup_write")
  /\ UNCHANGED <<file, loaded>>
  /\ UNCHANGED <<instVars, listVars, auxVars, pluginVars>>

\* Setup's p.stack.CreateDir("prometheus") and p.stack.WriteFile.
SetupWrite(p) ==
  /\ pc[p] = "setup_write"
  /\ \/ /\ file' = local[p]
        /\ FinishProm(p, "nil")
     \/ /\ FinishProm(p, "IOError")
        /\ UNCHANGED file
  /\ UNCHANGED <<call, loaded>>
  /\ UNCHANGED <<instVars, listVars, auxVars, pluginVars>>

----------------------------------------------------------------------------
(* DataDir.SavePluginImageContext.  The named result err is what the       *)
(* deferred functions see and set; ctx.Close() is deferred first and runs  *)
(* last, on every return.                                                  *)

\* SavePluginImageContext up to MkdirAll(plugin/).
SavePluginImageContext(p, g) ==
  /\ Begin(p, "SavePluginImageContext", g)
  /\ copyErr' = [copyErr EXCEPT ![p] = "none"]
  /\ \/ /\ pluginDir' = TRUE
        /\ ctx' = [ctx EXCEPT ![p] = "open"]
        /\ Goto(p, "plugin_create")
     \/ /\ ctx' = [ctx EXCEPT ![p] = "closed"]
        /\ Finish(p, "IOError")
        /\ UNCHANGED pluginDir
  /\ UNCHANGED plugins
  /\ UNCHANGED <<instVars, listVars, auxVars, promVars>>

\* d.fs.Create(plugin/<id>.tar): the file is there and empty.
PluginCreate(p) ==
  /\ pc[p] = "plugin_create"
  /\ \/ /\ plugins' = [plugins EXCEPT ![call[p].arg[1]] = "empty"]
        /\ Goto(p, "plugin_copy")
        /\ UNCHANGED ctx
     \/ /\ ctx' = [ctx EXCEPT ![p] = "closed"]
        /\ Finish(p, "IOError")
        /\ UNCHANGED plugins
  /\ UNCHANGED <<call, pluginDir, copyErr>>
  /\ UNCHANGED <<instVars, listVars, auxVars, promVars>>

\* _, err = io.Copy(ctxF, ctx): the whole stream is written, or part of it.
PluginCopy(p) ==
  /\ pc[p] = "plugin_copy"
  /\ \/ /\ plugins' = [plugins EXCEPT ![call[p].arg[1]] = "full"]
        /\ copyErr' = [copyErr EXCEPT ![p] = "nil"]
     \/ /\ plugins' = [plugins EXCEPT ![call[p].arg[1]] = "partial"]
        /\ copyErr' = [copyErr EXCEPT ![p] = "CopyError"]
  /\ Goto(p, "plugin_close")
  /\ UNCHANGED <<call, pluginDir, ctx>>
  /\ UNCHANGED <<instVars, listVars, auxVars, promVars>>

\* The result of the deferred function: errClose replaces err when err is
\* not nil, and is dropped when err is nil.
DeferredClose(e, errClose) == IF e # "nil" THEN errClose ELSE e

\* return err: the deferred ctxF.Close(), then the deferred ctx.Close().
PluginClose(p) ==
  /\ pc[p] = "plugin_close"
  /\ \E errClose \in {"nil", "CloseError"} :
       Finish(p, DeferredClose(copyErr[p], errClose))
  /\ ctx' = [ctx EXCEPT ![p] = "closed"]
  /\ UNCHANGED <<call, pluginDir, plugins, copyErr>>
  /\ UNCHANGED <<instVars, listVars, auxVars, promVars>>

----------------------------------------------------------------------------
(* DataDir.ListInstances                                                   *)

\* The code units of the names, in byte order.
CodeUnitOrder == <<"-", "1", "a", "b", "p", "t", "u", "uFFFD", "xFF">>

Rank(c) == CHOOSE k \in 1..Len(CodeUnitOrder) : CodeUnitOrder[k] = c

\* The name of the directory of an instance: <name>-<tag>.
FileName(id) == id[1] \o <<"-">> \o id[2]

RECURSIVE LessName(_, _)
\* s sorts before t.
LessName(s, t) ==
  IF s = <<>> THEN t # <<>>
  ELSE IF t = <<>> THEN FALSE
  ELSE IF Head(s) # Head(t) THEN Rank(Head(s)) < Rank(Head(t))
  ELSE LessName(Tail(s), Tail(t))

RECURSIVE SortByName(_)
SortByName(S) ==
  IF S = {} THEN <<>>
  ELSE LET m == CHOOSE x \in S : \A y \in S \ {x} : LessName(FileName(x), FileName(y))
       IN <<m>> \o SortByName(S \ {m})

\* A mutant of ReadDir: the first entry only.
ReadDirFirst(fs) ==
  LET all == SortByName({ id \in DOMAIN fs : fs[id].dir })
  IN SubSeq(all, 1, IF Len(all) > 0 THEN 1 ELSE 0)

\* afero.ReadDir(d.fs, nodesDirPath): the directories below nodes/, sorted by
\* name (nodes/ holds nothing but instance directories).
ReadDir(fs) == SortByName({ id \in DOMAIN fs : fs[id].dir })

\* ListInstances up to the Stat of nodes/.
ListInstances(p) ==
  /\ Begin(p, "ListInstances", "nodes")
  /\ list' = [list EXCEPT ![p] = NoList]
  /\ IF ~nodesDir THEN Finish(p, "nil") ELSE Goto(p, "list_readdir")
  /\ UNCHANGED nodesDir
  /\ UNCHANGED <<instVars, auxVars, promVars, pluginVars>>

\* dirEntries, err := afero.ReadDir(d.fs, nodesDirPath)
ListReadDir(p) ==
  /\ pc[p] = "list_readdir"
  /\ \/ /\ list' = [list EXCEPT ![p].entries = ReadDir(nodes)]
        /\ Goto(p, "list_read")
     \/ /\ Finish(p, "IOError")
        /\ UNCHANGED list
  /\ UNCHANGED <<call, nodesDir>>
  /\ UNCHANGED <<instVars, auxVars, promVars, pluginVars>>

\* One turn of the loop: d.Instance(dirEntry.Name()) of the next entry, or
\* the return after the last.  An error returns nil for the list.
ListRead(p) ==
  /\ pc[p] = "list_read"
  /\ LET n == Len(list[p].instances) IN
       IF n = Len(list[p].entries)
       THEN /\ Finish(p, "nil")
            /\ UNCHANGED list
       ELSE LET r == NewInstance(nodes, list[p].entries[n + 1]) IN
            IF r.err # "nil"
            THEN /\ list' = [list EXCEPT ![p].instances = <<>>]
                 /\ Finish(p, r.err)
            ELSE /\ list' = [list EXCEPT ![p].instances = Append(@, r.inst[1])]
                 /\ Goto(p, "list_read")
  /\ UNCHANGED <<call, nodesDir>>
  /\ UNCHANGED <<instVars, auxVars, promVars, pluginVars>>

NextLock ==
  \E p \in Procs :
       \/ \E inst \in LockInstances : InitInstance(p, inst)
       \/ InitCreateLock(p)
       \/ InitCreateState(p)
       \/ InitWriteState(p)
       \/ \E id \in LockIds : RemoveInstance(p, id)
       \/ \E id \in LockIds : Instance(p, id)
       \/ Lock(p)
       \/ LockAcquire(p)
       \/ Unlock(p)
       \/ TakeResult(p)

SpecLock == Init /\ [][NextLock]_vars

NextInst ==
  \E p \in Procs :
       \/ \E inst \in Instances : InitInstance(p, inst)
       \/ InitCreateLock(p)
       \/ InitCreateState(p)
       \/ InitWriteState(p)
       \/ \E id \in Ids : RemoveInstance(p, id)
       \/ TakeResult(p)

SpecInst == Init /\ [][NextInst]_vars

NextAux ==
  \/ \E p \in Procs :
          \/ \E b \in BackupIds : InitBackup(p, b)
          \/ initBackup(p)
          \/ TarInit(p)
          \/ MonitoringStack(p)
          \/ MonitoringMkdirAll(p)
          \/ MonitoringInit(p)
          \/ RemoveMonitoringStack(p)
          \/ TakeResult(p)
     \/ \E b \in BackupIds : ArchiveAppend(b)

SpecAux == Init /\ [][NextAux]_vars

NextProm ==
  \E p \in Procs :
       \/ \E a \in AddTargetArgs : AddTarget(p, a)
       \/ \E e \in RemoveTargetArgs : RemoveTarget(p, e)
       \/ WriteFile(p)
       \/ reloadConfig(p)
       \/ \E o \in SetupOptions : Setup(p, o)
       \/ SetupWrite(p)
       \/ TakeResult(p)

SpecProm == Init /\ [][NextProm]_vars

\* The configuration file a successful Setup with port 9100 has written.
SetupConfig ==
  yamlMarshal([EmbeddedConfig EXCEPT !.ScrapeConfigs =
    <<ScrapeConfig(<<NodeExporterContainerName, ":", "9100">>, <<>>)>>])

\* The state after Setup, with Prometheus started on the file it wrote.
InitAdd ==
  /\ nodes = [i \in Ids |-> NoDir]
  /\ pc = [p \in Procs |-> "idle"]
  /\ call = [p \in Procs |-> NoCall]
  /\ ret = [p \in Procs |-> "none"]
  /\ fd = [p \in Procs |-> 0]
  /\ handle = [p \in Procs |-> NoHandle]
  /\ backupDir = FALSE
  /\ archives = [b \in BackupIds |-> "absent"]
  /\ mon = [dir |-> TRUE, inited |-> TRUE]
  /\ file = <<SetupConfig>>
  /\ loaded = <<SetupConfig>>
  /\ local = [p \in Procs |-> <<>>]
  /\ nodesDir = FALSE
  /\ list = [p \in Procs |-> NoList]
  /\ pluginDir = FALSE
  /\ plugins = [g \in PluginIds |-> "absent"]
  /\ ctx = [p \in Procs |-> "none"]
  /\ copyErr = [p \in Procs |-> "none"]

\* The processes run AddTarget and nothing else.
NextAdd ==
  \E p \in Procs :
       \/ \E a \in AddTargetArgs : AddTarget(p, a)
       \/ WriteFile(p)
       \/ reloadConfig(p)
       \/ TakeResult(p)

SpecAdd == InitAdd /\ [][NextAdd]_vars

NextList ==
  \E p \in Procs :
       \/ \E inst \in ListedInstances : InitInstance(p, inst)
       \/ InitCreateLock(p)
       \/ InitCreateState(p)
       \/ InitWriteState(p)
       \/ \E id \in ListedIds : RemoveInstance(p, id)
       \/ ListInstances(p)
       \/ ListReadDir(p)
       \/ ListRead(p)
       \/ TakeResult(p)

SpecList == Init /\ [][NextList]_vars

NextPlugin ==
  \E p \in Procs :
       \/ \E g \in PluginIds : SavePluginImageContext(p, g)
       \/ PluginCreate(p)
       \/ PluginCopy(p)
       \/ PluginClose(p)
       \/ TakeResult(p)

SpecPlugin == Init /\ [][NextPlugin]_vars

----------------------------------------------------------------------------
(* The claims about the instance registry, under SpecInst.                 *)

IdOf(inst) == InstanceId(inst.Name, inst.Tag)

\* Process p begins operation op in this step.
Begins(p, op) == pc[p] = "idle" /\ pc'[p] # "idle" /\ call'[p].op = op

\* nodes/<id> holds the persisted state of an initialised instance.
Persisted(id) == nodes[id].dir /\ nodes[id].state # 0 /\ nodes[id].content # <<>>

\* C1: an InitInstance that begins while the instance of the same (Name, Tag)
\* is initialised and not removed returns InstanceAlreadyExists and leaves
\* the persisted state as it is.
C1_SecondInitFails ==
  [][\A p \in Procs :
       (Begins(p, "InitInstance") /\ Persisted(IdOf(call'[p].arg[1])))
         => /\ pc'[p] = "done"
            /\ ret'[p] = "InstanceAlreadyExists"
            /\ nodes' = nodes]_vars

\* C1: an InitInstance with another URL has returned InstanceAlreadyExists
\* and the state of the first instance is there to be read.
C1_Witness ==
  \E p \in Procs :
    /\ pc[p] = "done" /\ call[p].op = "InitInstance"
    /\ ret[p] = "InstanceAlreadyExists"
    /\ LET r == NewInstance(nodes, IdOf(call[p].arg[1])) IN
         r.err = "nil" /\ r.inst[1].URL # call[p].arg[1].URL

\* C2: an id is a known instance (HasInstance, InstancePath succeeds) exactly
\* when nodes/<id>/state.json exists.  Stated for the states in which no
\* InitInstance is under way, where the claim asks least.
C2_KnownIffStateFile ==
  (\A p \in Procs : pc[p] \in {"idle", "done"}) =>
    \A id \in Ids :
      /\ HasInstance(id) <=> (nodes[id].state # 0)
      /\ (InstancePath(id).err = "nil") <=> (nodes[id].state # 0)

\* C7: RemoveInstance of an id that is not present returns InstanceNotFound
\* and changes nothing; of a present id it leaves HasInstance(id) false and
\* every other instance as it was.
C7_RemoveInstance ==
  [][\A p \in Procs :
       Begins(p, "RemoveInstance") =>
         LET id == call'[p].arg[1] IN
           /\ pc'[p] = "done"
           /\ IF nodes[id].dir
              THEN /\ ret'[p] = "nil"
                   /\ ~StatExists(nodes', id)
                   /\ \A j \in Ids \ {id} : nodes'[j] = nodes[j]
              ELSE /\ ret'[p] = "InstanceNotFound"
                   /\ nodes' = nodes]_vars

\* C7: a RemoveInstance has succeeded while another instance stays readable.
C7_Witness ==
  \E p \in Procs :
    /\ pc[p] = "done" /\ call[p].op = "RemoveInstance" /\ ret[p] = "nil"
    /\ ~HasInstance(call[p].arg[1])
    /\ \E j \in Ids \ {call[p].arg[1]} : NewInstance(nodes, j).err = "nil"

\* The step in which the InitInstance of p returns nil.
InitSucceeds(p) == pc[p] = "init_write" /\ pc'[p] = "done" /\ ret'[p] = "nil"

ValidUTF8(s) == \A k \in 1..Len(s) : s[k] # "xFF"

ValidUTF8Instance(i) ==
  /\ ValidUTF8(i.Name) /\ ValidUTF8(i.URL) /\ ValidUTF8(i.Version)
  /\ ValidUTF8(i.Profile) /\ ValidUTF8(i.Tag)

InitStep(p, id) ==
  /\ pc'[p] # pc[p]
  /\ call'[p].op = "InitInstance"
  /\ IdOf(call'[p].arg[1]) = id

\* C14 (as claimed): once state.json is written for an id, no step of an
\* InitInstance for that id changes its contents, whenever that InitInstance
\* made its existence check.
C14_NeverOverwrites ==
  [][\A id \in Ids : \A p \in Procs :
       (Persisted(id) /\ InitStep(p, id)) => nodes'[id].content = nodes[id].content]_vars

\* C14 (amended): an InitInstance gets past its existence check only when
\* the directory of the id is not there, and then creates nothing in that
\* step; a state.json that is written is changed by an InitInstance only in
\* the steps after that check.
C14_OverwriteOnlyPastCheck ==
  [][\A p \in Procs :
       /\ Begins(p, "InitInstance") =>
            /\ nodes' = nodes
            /\ nodes[IdOf(call'[p].arg[1])].dir =>
                 (pc'[p] = "done" /\ ret'[p] = "InstanceAlreadyExists")
       /\ \A id \in Ids :
            (Persisted(id) /\ InitStep(p, id) /\ nodes'[id].content # nodes[id].content)
              => pc[p] \in {"init_state", "init_write"}]_vars

\* C14: an InitInstance has written state.json and returned nil, and an
\* InitInstance of another process for the same id with other values has
\* returned InstanceAlreadyExists; state.json holds the values of the first.
C14_Witness ==
  \E p, q \in Procs :
    /\ pc[p] = "done" /\ call[p].op = "InitInstance" /\ ret[p] = "nil"
    /\ pc[q] = "done" /\ call[q].op = "InitInstance" /\ ret[q] = "InstanceAlreadyExists"
    /\ IdOf(call[p].arg[1]) = IdOf(call[q].arg[1])
    /\ Marshal(call[p].arg[1]) # Marshal(call[q].arg[1])
    /\ nodes[IdOf(call[p].arg[1])].content = <<Marshal(call[p].arg[1])>>

\* C18 (as claimed): an InitInstance of an instance with an empty field
\* returns InvalidInstance and creates nothing.
C18_InvalidCreatesNothing ==
  [][\A p \in Procs :
       (Begins(p, "InitInstance") /\ validate(call'[p].arg[1]) # "nil")
         => /\ pc'[p] = "done"
            /\ ret'[p] = validate(call'[p].arg[1])
            /\ nodes' = nodes /\ nodesDir' = nodesDir]_vars

\* C18 (amended): an InitInstance of an instance with an empty field creates
\* nothing; it returns InvalidInstance, unless the directory of its id is
\* there, when it returns InstanceAlreadyExists.
C18_InvalidOrAlreadyExists ==
  [][\A p \in Procs :
       (Begins(p, "InitInstance")
        /\ \E f \in {"Name", "URL", "Version", "Profile", "Tag"} : call'[p].arg[1][f] = <<>>)
         => /\ pc'[p] = "done"
            /\ ret'[p] = IF nodes[IdOf(call'[p].arg[1])].dir
                         THEN "InstanceAlreadyExists"
                         ELSE validate(call'[p].arg[1])
            /\ ret'[p] # "nil"
            /\ nodes' = nodes /\ nodesDir' = nodesDir]_vars

\* C18: an InitInstance with an empty URL has returned InvalidInstance, with
\* no directory for its id, while another instance stays readable.
C18_Witness ==
  \E p \in Procs :
    /\ pc[p] = "done" /\ call[p].op = "InitInstance"
    /\ call[p].arg[1].URL = <<>>
    /\ ret[p] = "InvalidInstance: url is empty"
    /\ ~nodes[IdOf(call[p].arg[1])].dir
    /\ \E j \in Ids : NewInstance(nodes, j).err = "nil"

----------------------------------------------------------------------------
(* The claim about the instance lock, under SpecLock.                      *)

\* C3: no two distinct handles on the same instance path hold the lock at
\* the same time.
C3_MutualExclusion ==
  \A p, q \in Procs :
    (p # q /\ handle[p].id # <<>> /\ handle[p].id = handle[q].id)
      => ~(handle[p].locked /\ handle[q].locked)

\* C11: Unlock() on a handle that does not hold the lock returns "instance is
\* not locked" and changes no handle; on a handle that holds it, it returns
\* nil and releases it; no Unlock changes the lock state of another handle.
\* A handle comes to hold the lock only in the step in which its Lock()
\* returns nil, and gives it up only in its own successful Unlock().
C11_UnlockNotLocked ==
  [][\A p \in Procs :
       /\ Begins(p, "Unlock") =>
            /\ pc'[p] = "done"
            /\ nodes' = nodes
            /\ \A q \in Procs \ {p} : handle'[q] = handle[q]
            /\ IF handle[p].locked
               THEN ret'[p] = "nil" /\ ~handle'[p].locked
               ELSE ret'[p] = "instance is not locked" /\ handle' = handle
       /\ (~handle[p].locked /\ handle'[p].locked) =>
            (call[p].op = "Lock" /\ pc'[p] = "done" /\ ret'[p] = "nil")
       /\ (handle[p].locked /\ ~handle'[p].locked) =>
            (Begins(p, "Unlock") /\ ret'[p] = "nil")]_vars

\* C11: an Unlock() on a handle that had used its lock has returned "instance
\* is not locked" while another handle holds the lock.
C11_Witness ==
  \E p \in Procs :
    /\ pc[p] = "done" /\ call[p].op = "Unlock"
    /\ ret[p] = "instance is not locked"
    /\ handle[p].lock /\ ~handle[p].locked
    /\ \E q \in Procs \ {p} : handle[q].locked

----------------------------------------------------------------------------
(* The claims about the monitoring stack and the backups, under SpecAux.   *)

\* C9: a MonitoringStack() that begins while monitoring/ exists returns a
\* handle at once: it runs no initialization and writes nothing.
C9_NoSecondInit ==
  [][\A p \in Procs :
       (Begins(p, "MonitoringStack") /\ mon.dir)
         => /\ pc'[p] = "done"
            /\ ret'[p] = "nil"
            /\ mon' = mon]_vars

\* C9: two calls have returned a handle on the initialised directory.
C9_Witness ==
  /\ mon.dir /\ mon.inited
  /\ \A p \in Procs : pc[p] = "done" /\ call[p].op = "MonitoringStack" /\ ret[p] = "nil"

----------------------------------------------------------------------------
(* The claims about the Prometheus targets, under SpecProm.                *)

\* The scrape jobs of the configuration file.
FileJobs == IF file = <<>> THEN <<>> ELSE file[1].scrape_configs

\* The job key of an endpoint: the endpoint without a leading http://.
JobKey(e) == IF Len(e) > 0 /\ e[1] = "http://" THEN Tail(e) ELSE e

JobsNamed(key) == { k \in 1..Len(FileJobs) : FileJobs[k].job_name = key }

\* C4: the job names of the configuration file are pairwise distinct.
C4_UniqueJobNames ==
  \A i, j \in 1..Len(FileJobs) : i # j => FileJobs[i].job_name # FileJobs[j].job_name

\* C4: the file holds three jobs.
C4_Witness == Len(FileJobs) = 3

\* C5: an AddTarget that finds a job with the endpoint's key in the file
\* returns nil at once: no write, no reload, the file and the loaded
\* configuration as they were.
C5_AddTargetIdempotent ==
  [][\A p \in Procs :
       (Begins(p, "AddTarget") /\ JobsNamed(JobKey(call'[p].arg[1].endpoint)) # {})
         => /\ pc'[p] = "done"
            /\ ret'[p] = "nil"
            /\ file' = file
            /\ loaded' = loaded]_vars

\* C5: an AddTarget has returned nil for an endpoint whose one job carries
\* another instanceID than the call's.
C5_Witness ==
  \E p \in Procs :
    /\ pc[p] = "done" /\ call[p].op = "AddTarget" /\ ret[p] = "nil"
    /\ LET ks == JobsNamed(JobKey(call[p].arg[1].endpoint)) IN
         /\ Cardinality(ks) = 1
         /\ \A k \in ks :
              FileJobs[k].static_configs[1].labels # << <<"instanceID", call[p].arg[1].instanceID>> >>

\* C6: a RemoveTarget that finds no job with the endpoint's key in the file
\* returns NonexistingEndpoint at once: no write, no reload.
C6_RemoveNonexisting ==
  [][\A p \in Procs :
       (Begins(p, "RemoveTarget") /\ file # <<>> /\ JobsNamed(JobKey(call'[p].arg[1])) = {})
         => /\ pc'[p] = "done"
            /\ ret'[p] = "NonexistingEndpoint"
            /\ file' = file
            /\ loaded' = loaded]_vars

\* C6: a RemoveTarget has returned NonexistingEndpoint on a file with jobs.
C6_Witness ==
  \E p \in Procs :
    /\ pc[p] = "done" /\ call[p].op = "RemoveTarget"
    /\ ret[p] = "NonexistingEndpoint"
    /\ Len(FileJobs) >= 2
    /\ JobsNamed(JobKey(call[p].arg[1])) = {}

----------------------------------------------------------------------------
(* The claim about the plugin image contexts, under SpecPlugin.            *)

\* C12: when SavePluginImageContext has returned, the input stream is
\* closed; the result is the copy error when the copy failed, and the close
\* error only when the copy succeeded.
C12_CopyErrorFirst ==
  \A p \in Procs :
    (pc[p] = "done" /\ call[p].op = "SavePluginImageContext") =>
      /\ ctx[p] = "closed"
      /\ copyErr[p] = "CopyError" => ret[p] = "CopyError"
      /\ ret[p] = "CloseError" => copyErr[p] = "nil"

----------------------------------------------------------------------------
(* The claim about the listing of the instances, under SpecList.           *)

\* C13: ListInstances with no nodes/ returns the empty list and nil.  With
\* nodes/ there, the entries it reads are the subdirectories of nodes/, each
\* once; every instance it takes is the one read from the next entry; an
\* entry that cannot be read as a valid instance ends the call with that
\* error and no list; and a call that returns nil returns one instance for
\* every entry.
C13_ListInstances ==
  [][\A p \in Procs :
       /\ (Begins(p, "ListInstances") /\ ~nodesDir) =>
            (pc'[p] = "done" /\ ret'[p] = "nil" /\ list'[p].instances = <<>>)
       /\ (pc[p] = "list_readdir" /\ pc'[p] = "list_read") =>
            LET es == list'[p].entries IN
              /\ { es[k] : k \in 1..Len(es) } = { id \in Ids : nodes[id].dir }
              /\ Len(es) = Cardinality({ id \in Ids : nodes[id].dir })
       /\ (pc[p] = "list_read" /\ pc'[p] # pc[p]) =>
            LET n == Len(list[p].instances)
                es == list[p].entries IN
              /\ pc'[p] = "done"
              /\ IF n < Len(es)
                 THEN /\ NewInstance(nodes, es[n + 1]).err # "nil"
                      /\ ret'[p] = NewInstance(nodes, es[n + 1]).err
                      /\ list'[p].instances = <<>>
                 ELSE /\ ret'[p] = "nil"
                      /\ list'[p].instances = list[p].instances
                      /\ Len(list'[p].instances) = Len(es)
       /\ (pc[p] = "list_read" /\ pc'[p] = pc[p] /\ list'[p] # list[p]) =>
            LET n == Len(list[p].instances)
                r == NewInstance(nodes, list[p].entries[n + 1]) IN
              /\ r.err = "nil"
              /\ list'[p].instances = Append(list[p].instances, r.inst[1])
              /\ list'[p].entries = list[p].entries]_vars

\* C13: a ListInstances has returned two instances, and another has failed
\* on a directory without a readable state.json and returned no list.
C13_Witness ==
  \E p, q \in Procs :
    /\ pc[p] = "done" /\ call[p].op = "ListInstances" /\ ret[p] = "nil"
    /\ Len(list[p].instances) = 2
    /\ pc[q] = "done" /\ call[q].op = "ListInstances" /\ ret[q] # "nil"
    /\ Len(list[q].entries) = 2 /\ list[q].instances = <<>>

----------------------------------------------------------------------------
(* More claims about the Prometheus targets, under SpecProm.               *)

\* The jobs js without the one at index i.
WithoutIndex(js, i) == [k \in 1..(Len(js) - 1) |-> IF k < i THEN js[k] ELSE js[k + 1]]

\* C15: the configuration a RemoveTarget goes on to write is the one it read
\* with exactly one job deleted, the one named by the endpoint without its
\* scheme, and the other jobs in their order; the write puts it into the
\* file; and the call returns nil only from the reload, which follows the
\* write.
C15_RemoveExactlyOne ==
  [][\A p \in Procs :
       /\ (Begins(p, "RemoveTarget") /\ pc'[p] # "done") =>
            /\ pc'[p] = "write"
            /\ file' = file /\ loaded' = loaded
            /\ \E i \in 1..Len(FileJobs) :
                 /\ FileJobs[i].job_name = JobKey(call'[p].arg[1])
                 /\ local'[p] = <<[file[1] EXCEPT !.scrape_configs = WithoutIndex(FileJobs, i)]>>
       /\ (call[p].op = "RemoveTarget" /\ pc[p] = "write" /\ pc'[p] # "write") =>
            /\ loaded' = loaded
            /\ \/ pc'[p] = "reload" /\ file' = local[p]
               \/ pc'[p] = "done" /\ ret'[p] # "nil" /\ file' = file
       /\ (call'[p].op = "RemoveTarget" /\ pc[p] # "done" /\ pc'[p] = "done" /\ ret'[p] = "nil") =>
            (pc[p] = "reload" /\ file' = file /\ loaded' = file)]_vars

\* C15: a RemoveTarget of the first of three jobs has returned nil, and the
\* file holds the other two.
C15_Witness ==
  \E p \in Procs :
    /\ pc[p] = "done" /\ call[p].op = "RemoveTarget" /\ ret[p] = "nil"
    /\ call[p].arg[1] = <<NodeExporterContainerName, ":", "9100">>
    /\ Len(FileJobs) = 2 /\ loaded = file
    /\ JobsNamed(JobKey(call[p].arg[1])) = {}

\* C16: a reload that fails ends the call with its error, IOError of the
\* transport or ReloadFailed of a status other than 200, and leaves the file
\* as the write made it and the loaded configuration as it was.
C16_NoRollback ==
  [][\A p \in Procs :
       (pc[p] = "reload" /\ pc'[p] # "reload" /\ ret'[p] # "nil")
         => /\ pc'[p] = "done"
            /\ ret'[p] \in {"IOError", "ReloadFailed"}
            /\ file' = file
            /\ loaded' = loaded]_vars

\* C16: an AddTarget has returned ReloadFailed; the file holds its job, the
\* loaded configuration does not.
C16_Witness ==
  \E p \in Procs :
    /\ pc[p] = "done" /\ call[p].op = "AddTarget" /\ ret[p] = "ReloadFailed"
    /\ JobsNamed(JobKey(call[p].arg[1].endpoint)) # {}
    /\ loaded # <<>>
    /\ \A k \in 1..Len(loaded[1].scrape_configs) :
         loaded[1].scrape_configs[k].job_name # JobKey(call[p].arg[1].endpoint)

\* C17: a Setup without NODE_EXPORTER_PORT, or with an empty one, returns
\* InvalidOptions and writes nothing; a Setup that returns nil leaves the
\* file with one job, that of the node exporter; no step of Setup reloads.
C17_Setup ==
  [][\A p \in Procs :
       /\ (Begins(p, "Setup")
           /\ (~call'[p].arg[1].has \/ call'[p].arg[1].NODE_EXPORTER_PORT = <<>>))
            => /\ pc'[p] = "done"
               /\ ret'[p] \in {"InvalidOptions: NODE_EXPORTER_PORT missing in options",
                                "InvalidOptions: NODE_EXPORTER_PORT can't be empty"}
               /\ file' = file /\ loaded' = loaded /\ local'[p] = <<>>
       /\ (call'[p].op = "Setup" /\ pc[p] # "done" /\ pc'[p] = "done" /\ ret'[p] = "nil")
            => LET e == <<NodeExporterContainerName, ":">> \o call'[p].arg[1].NODE_EXPORTER_PORT
                   js == file'[1].scrape_configs IN
                 /\ Len(js) = 1
                 /\ js[1].job_name = e
                 /\ js[1].static_configs = << [targets |-> <<e>>, labels |-> <<>>] >>
       /\ (call'[p].op = "Setup" /\ pc'[p] # pc[p]) => loaded' = loaded]_vars

\* C17: a Setup has returned nil on a file that held three jobs, which the
\* running Prometheus still has loaded; the file holds the one job.
C17_Witness ==
  \E p \in Procs :
    /\ pc[p] = "done" /\ call[p].op = "Setup" /\ ret[p] = "nil"
    /\ Len(FileJobs) = 1
    /\ loaded # <<>> /\ Len(loaded[1].scrape_configs) = 3

----------------------------------------------------------------------------
(* The claims about sequences of AddTarget calls, under SpecAdd.           *)

\* The jobs of the configuration the running Prometheus loaded last.
LoadedJobs == IF loaded = <<>> THEN <<>> ELSE loaded[1].scrape_configs

\* C19: whenever an AddTarget returns nil, the configuration the running
\* Prometheus loaded last holds the job of its endpoint.
C19_SuccessMeansLoaded ==
  [][\A p \in Procs :
       (call'[p].op = "AddTarget" /\ pc[p] # "done" /\ pc'[p] = "done" /\ ret'[p] = "nil")
         => \E k \in 1..Len(LoadedJobs') :
              LoadedJobs'[k].job_name = JobKey(call'[p].arg[1].endpoint)]_vars

\* C20: when two processes have both returned nil from AddTarget for two
\* distinct endpoints, the file holds the jobs of both.
C20_NoLostRegistration ==
  \A p, q \in Procs :
    (/\ p # q
     /\ pc[p] = "done" /\ call[p].op = "AddTarget" /\ ret[p] = "nil"
     /\ pc[q] = "done" /\ call[q].op = "AddTarget" /\ ret[q] = "nil"
     /\ JobKey(call[p].arg[1].endpoint) # JobKey(call[q].arg[1].endpoint))
      => /\ JobsNamed(JobKey(call[p].arg[1].endpoint)) # {}
         /\ JobsNamed(JobKey(call[q].arg[1].endpoint)) # {}

----------------------------------------------------------------------------
(* The claim about the initialization of the monitoring stack, under       *)
(* SpecAux.                                                                *)

\* C21: whenever a MonitoringStack() returns a handle and nil, monitoring/
\* is there and the initialization of the stack in it has completed.
C21_HandleMeansInitialized ==
  [][\A p \in Procs :
       (call'[p].op = "MonitoringStack" /\ pc[p] # "done" /\ pc'[p] = "done" /\ ret'[p] = "nil")
         => (mon'.dir /\ mon'.inited)]_vars

====
